---- MODULE Spec2Model ----
(***************************************************************************)
(* doc2quarto: the content-transformation core (convert_content,           *)
(* convert_frontmatter, convert_admonitions of src/src/lib.rs) and the     *)
(* per-file loop of main (src/src/main.rs).                                *)
(*                                                                         *)
(* Text is a sequence of one-character strings; a document is the text     *)
(* read from a file and str::lines() cuts it into lines.                   *)
(***************************************************************************)
EXTENDS Integers, Sequences, FiniteSets, TLC

VARIABLES
    \* convert_admonitions, one call and a second pass over its output
    adm_line, adm_out, adm_rule, adm_pass2, adm_pc,
    \* convert_frontmatter, one call
    fm_lines, fm_out, fm_pc,
    \* convert_content, the line scan
    content, cc_lines, pos, in_frontmatter, frontmatter_lines, result, cc_pc,
    \* main, the per-file loop around process_files
    md_files, next_file, main_pc, calls, success_count, pb_pos,
    \* process_files, its locals and the destination tree
    pf_pc, pf_file, pf_content, pf_converted, pf_result,
    dest_dirs, dest_files, img_copied

admVars  == <<adm_line, adm_out, adm_rule, adm_pass2, adm_pc>>
fmVars   == <<fm_lines, fm_out, fm_pc>>
ccVars   == <<content, cc_lines, pos, in_frontmatter, frontmatter_lines, result, cc_pc>>
mainVars == <<md_files, next_file, main_pc, calls, success_count, pb_pos>>
pfVars   == <<pf_pc, pf_file, pf_content, pf_converted, pf_result,
              dest_dirs, dest_files, img_copied>>
vars     == <<admVars, fmVars, ccVars, mainVars, pfVars>>

----------------------------------------------------------------------------
(* Characters and the str primitives the code uses.                        *)

NL == "\n"
CR == "\r"
COLON == ":"

\* char::is_whitespace, on the characters of the model
WhiteSpace == {" ", "\t", NL, CR}

UpperSeq == <<"A", "B", "C", "D", "E", "F", "G", "H", "I", "J", "K", "L", "M",
              "N", "O", "P", "Q", "R", "S", "T", "U", "V", "W", "X", "Y", "Z">>
LowerSeq == <<"a", "b", "c", "d", "e", "f", "g", "h", "i", "j", "k", "l", "m",
              "n", "o", "p", "q", "r", "s", "t", "u", "v", "w", "x", "y", "z">>
Digits   == {"0", "1", "2", "3", "4", "5", "6", "7", "8", "9"}

Range(s) == {s[i] : i \in 1..Len(s)}

\* the regex class \w: letters, digits and the underscore
IsWordChar(c) == c \in Range(UpperSeq) \cup Range(LowerSeq) \cup Digits \cup {"_"}

\* char::to_lowercase
lower_char(c) ==
    IF c \in Range(UpperSeq)
    THEN LowerSeq[CHOOSE i \in 1..Len(UpperSeq) : UpperSeq[i] = c]
    ELSE c

\* str::to_lowercase
to_lowercase(s) == [i \in 1..Len(s) |-> lower_char(s[i])]

RECURSIVE trim_start(_)
trim_start(s) ==
    IF s # <<>> /\ Head(s) \in WhiteSpace THEN trim_start(Tail(s)) ELSE s

RECURSIVE trim_end(_)
trim_end(s) ==
    IF s # <<>> /\ s[Len(s)] \in WhiteSpace
    THEN trim_end(SubSeq(s, 1, Len(s) - 1))
    ELSE s

\* str::trim
trim(s) == trim_end(trim_start(s))

\* str::starts_with
starts_with(s, p) == Len(s) >= Len(p) /\ SubSeq(s, 1, Len(p)) = p

\* the index of the first c in s at or after from, 0 when there is none
find_from(s, c, from) ==
    IF \E i \in from..Len(s) : s[i] = c
    THEN CHOOSE i \in from..Len(s) : s[i] = c /\ \A j \in from..(i - 1) : s[j] # c
    ELSE 0

\* str::lines(): cut at "\n", a "\r" right before the "\n" goes with it, and
\* no empty line follows a final "\n"
RECURSIVE lines(_)
lines(text) ==
    IF text = <<>> THEN <<>>
    ELSE LET n == find_from(text, NL, 1) IN
         IF n = 0 THEN <<text>>
         ELSE LET raw  == SubSeq(text, 1, n - 1)
                  line == IF raw # <<>> /\ raw[Len(raw)] = CR
                          THEN SubSeq(raw, 1, Len(raw) - 1) ELSE raw
              IN  <<line>> \o lines(SubSeq(text, n + 1, Len(text)))

----------------------------------------------------------------------------
(* The literals of the code.                                               *)

FM_DELIM == <<"-", "-", "-">>
ADM_CLOSE == <<":", ":", ":">>
CALLOUT_CLOSE == <<":", ":", ":", ":">>
SIDEBAR_POSITION == <<"s", "i", "d", "e", "b", "a", "r", "_", "p", "o", "s", "i", "t", "i", "o", "n">>
ORDER_PREFIX == <<"o", "r", "d", "e", "r", ":", " ">>
T_note == <<"n", "o", "t", "e">>
T_tip == <<"t", "i", "p">>
T_info == <<"i", "n", "f", "o">>
T_caution == <<"c", "a", "u", "t", "i", "o", "n">>
T_warning == <<"w", "a", "r", "n", "i", "n", "g">>
T_danger == <<"d", "a", "n", "g", "e", "r">>
T_important == <<"i", "m", "p", "o", "r", "t", "a", "n", "t">>
FMT_OPEN == <<":", ":", ":", ":", " ", "{">>
FMT_OPEN_CALLOUT == <<":", ":", ":", ":", " ", "{", ".", "c", "a", "l", "l", "o", "u", "t", "-">>
FMT_CLOSE == <<"}">>
FMT_HEADING == <<"}", "\n", "#", "#", " ">>

----------------------------------------------------------------------------
(* convert_frontmatter                                                     *)

\* line.split(':').nth(1).unwrap_or(""): the piece between the first colon
\* and the second one (or the end of the line), "" when there is no colon
split_nth1(line) ==
    LET i == find_from(line, COLON, 1) IN
    IF i = 0 THEN <<>>
    ELSE LET j == find_from(line, COLON, i + 1) IN
         IF j = 0 THEN SubSeq(line, i + 1, Len(line))
         ELSE SubSeq(line, i + 1, j - 1)

is_sidebar_position(line) == starts_with(trim(line), SIDEBAR_POSITION)

\* the text one frontmatter line adds to the result (and a slip of it: an
\* "order" line already there is dropped)
frontmatter_line_dropping_order(line) ==
    IF is_sidebar_position(line)
    THEN ORDER_PREFIX \o trim(split_nth1(line)) \o <<NL>>
    ELSE IF starts_with(line, ORDER_PREFIX) THEN <<>> ELSE line \o <<NL>>

frontmatter_line(line) ==
    IF is_sidebar_position(line)
    THEN ORDER_PREFIX \o trim(split_nth1(line)) \o <<NL>>
    ELSE line \o <<NL>>

RECURSIVE convert_frontmatter(_)
convert_frontmatter(ls) ==
    IF ls = <<>> THEN <<>>
    ELSE frontmatter_line(Head(ls)) \o convert_frontmatter(Tail(ls))

----------------------------------------------------------------------------
(* convert_admonitions                                                     *)

RECURSIVE word_run_end(_, _)
\* the last index of the run of word characters that holds index i
word_run_end(s, i) ==
    IF i + 1 <= Len(s) /\ IsWordChar(s[i + 1]) THEN word_run_end(s, i + 1) ELSE i

\* admonition_start = ^:::(\w)+(.*)$  ("." matches no "\n", "$" is the end of the text)
admonition_start_is_match(line) ==
    /\ starts_with(line, ADM_CLOSE)
    /\ Len(line) >= 4
    /\ IsWordChar(line[4])
    /\ \A i \in (word_run_end(line, 4) + 1)..Len(line) : line[i] # NL

\* caps[1]: a group under "+" keeps its last repetition, one character
caps_1(line) == <<line[word_run_end(line, 4)]>>

\* caps[2]: all that follows the run of word characters
caps_2(line) == SubSeq(line, word_run_end(line, 4) + 1, Len(line))

\* admonition_end = ^:::$ (and two slips of it: no "$", blanks tolerated)
admonition_end_unanchored(line) == starts_with(line, ADM_CLOSE)

admonition_end_trimmed(line) == trim(line) = ADM_CLOSE

admonition_end_is_match(line) == line = ADM_CLOSE

\* the match on the lowercased type; any other type stays as written
quarto_type(admonition_type) ==
    LET l == to_lowercase(admonition_type) IN
    CASE l = T_note    -> T_note
      [] l = T_tip     -> T_tip
      [] l = T_info    -> T_note
      [] l = T_caution -> T_caution
      [] l = T_warning -> T_warning
      [] l = T_danger  -> T_important
      [] OTHER         -> admonition_type

\* a slip of the function: the title taken without .trim()
convert_admonitions_untrimmed_title(line) ==
    IF admonition_start_is_match(line)
    THEN LET admonition_type == caps_1(line)
             title == caps_2(line)
             qt    == quarto_type(admonition_type)
         IN  IF title = <<>>
             THEN FMT_OPEN \o qt \o FMT_CLOSE
             ELSE FMT_OPEN_CALLOUT \o qt \o FMT_HEADING \o title
    ELSE IF admonition_end_is_match(line) THEN CALLOUT_CLOSE
    ELSE line

convert_admonitions(line) ==
    IF admonition_start_is_match(line)
    THEN LET admonition_type == caps_1(line)
             title == trim(caps_2(line))
             qt    == quarto_type(admonition_type)
         IN  IF title = <<>>
             THEN FMT_OPEN \o qt \o FMT_CLOSE
             ELSE FMT_OPEN_CALLOUT \o qt \o FMT_HEADING \o title
    ELSE IF admonition_end_is_match(line) THEN CALLOUT_CLOSE
    ELSE line

----------------------------------------------------------------------------
(* convert_content                                                         *)

FM_DELIM_LINE == FM_DELIM \o <<NL>>

\* the locals of convert_content when the loop is entered
scan_start == [in_frontmatter |-> FALSE, frontmatter_lines |-> <<>>, result |-> <<>>]

\* plausible slips of the loop body, used to test the properties below
scan_line_no_buffering(st, line) ==
    IF line = FM_DELIM
    THEN IF ~st.in_frontmatter
         THEN [st EXCEPT !.in_frontmatter = TRUE]
         ELSE [st EXCEPT !.result = @ \o FM_DELIM_LINE
                                      \o convert_frontmatter(st.frontmatter_lines),
                         !.frontmatter_lines = <<>>]
    ELSE [st EXCEPT !.result = @ \o convert_admonitions(line) \o <<NL>>]

scan_line_skipping_blank(st, line) ==
    IF line = FM_DELIM
    THEN IF ~st.in_frontmatter
         THEN [st EXCEPT !.in_frontmatter = TRUE]
         ELSE [st EXCEPT !.result = @ \o FM_DELIM_LINE
                                      \o convert_frontmatter(st.frontmatter_lines),
                         !.frontmatter_lines = <<>>]
    ELSE IF st.in_frontmatter
    THEN [st EXCEPT !.frontmatter_lines = Append(@, line)]
    ELSE IF trim(line) = <<>> THEN st
    ELSE [st EXCEPT !.result = @ \o convert_admonitions(line) \o <<NL>>]

scan_line_clearing_flag(st, line) ==
    IF line = FM_DELIM
    THEN IF ~st.in_frontmatter
         THEN [st EXCEPT !.in_frontmatter = TRUE]
         ELSE [st EXCEPT !.result = @ \o FM_DELIM_LINE
                                      \o convert_frontmatter(st.frontmatter_lines),
                         !.frontmatter_lines = <<>>,
                         !.in_frontmatter = FALSE]
    ELSE IF st.in_frontmatter
    THEN [st EXCEPT !.frontmatter_lines = Append(@, line)]
    ELSE [st EXCEPT !.result = @ \o convert_admonitions(line) \o <<NL>>]

\* one iteration of `for line in content.lines()`
scan_line(st, line) ==
    IF line = FM_DELIM
    THEN IF ~st.in_frontmatter
         THEN [st EXCEPT !.in_frontmatter = TRUE]
         ELSE [st EXCEPT !.result = @ \o FM_DELIM_LINE
                                      \o convert_frontmatter(st.frontmatter_lines),
                         !.frontmatter_lines = <<>>]
    ELSE IF st.in_frontmatter
    THEN [st EXCEPT !.frontmatter_lines = Append(@, line)]
    ELSE [st EXCEPT !.result = @ \o convert_admonitions(line) \o <<NL>>]

RECURSIVE scan(_, _)
scan(st, ls) == IF ls = <<>> THEN st ELSE scan(scan_line(st, Head(ls)), Tail(ls))

\* the function as a whole, as process_files calls it
convert_content(text) == scan(scan_start, lines(text)).result

----------------------------------------------------------------------------
(* Inputs.                                                                 *)

L_title_test == <<"t", "i", "t", "l", "e", ":", " ", "\"", "T", "e", "s", "t", "\"">>
L_sidebar_1 == <<"s", "i", "d", "e", "b", "a", "r", "_", "p", "o", "s", "i", "t", "i", "o", "n", ":", " ", "1">>
L_title_x == <<"t", "i", "t", "l", "e", ":", " ", "X">>
L_sidebar_2 == <<"s", "i", "d", "e", "b", "a", "r", "_", "p", "o", "s", "i", "t", "i", "o", "n", ":", " ", "2">>
L_order_2 == <<"o", "r", "d", "e", "r", ":", " ", "2">>
L_order_1 == <<"o", "r", "d", "e", "r", ":", " ", "1">>
L_order_3 == <<"o", "r", "d", "e", "r", ":", " ", "3">>
L_tip_quick == <<":", ":", ":", "t", "i", "p", " ", "Q", "u", "i", "c", "k">>
L_body == <<"b", "o", "d", "y">>
L_note_hello == <<":", ":", ":", "n", "o", "t", "e", " ", "H", "e", "l", "l", "o">>
L_info == <<":", ":", ":", "i", "n", "f", "o">>
L_plain == <<"p", "l", "a", "i", "n", " ", "t", "e", "x", "t">>
L_callout_tip == <<":", ":", ":", ":", " ", "{", ".", "c", "a", "l", "l", "o", "u", "t", "-", "t", "i", "p", "}">>
L_h_quick == <<"#", "#", " ", "Q", "u", "i", "c", "k">>
L_callout_note == <<":", ":", ":", ":", " ", "{", ".", "c", "a", "l", "l", "o", "u", "t", "-", "n", "o", "t", "e", "}">>
L_h_hello == <<"#", "#", " ", "H", "e", "l", "l", "o">>
L_brace_note == <<":", ":", ":", ":", " ", "{", "n", "o", "t", "e", "}">>
L_sidebar_colons == <<"s", "i", "d", "e", "b", "a", "r", "_", "p", "o", "s", "i", "t", "i", "o", "n", ":", " ", "1", ":", "2">>
L_sidebar_nocolon == <<"s", "i", "d", "e", "b", "a", "r", "_", "p", "o", "s", "i", "t", "i", "o", "n">>
L_sidebar_indent == <<" ", " ", "s", "i", "d", "e", "b", "a", "r", "_", "p", "o", "s", "i", "t", "i", "o", "n", " ", ":", " ", "4", " ">>
L_order_empty == <<"o", "r", "d", "e", "r", ":", " ">>
L_order_1c2 == <<"o", "r", "d", "e", "r", ":", " ", "1", ":", "2">>
L_order_4 == <<"o", "r", "d", "e", "r", ":", " ", "4">>
W_Note == <<"N", "o", "t", "e">>
W_TIP == <<"T", "I", "P">>
W_Foo == <<"F", "o", "o">>
W_x == <<"x">>
W_a_1 == <<"a", "_", "1">>
TL_hello == <<" ", "H", "e", "l", "l", "o">>
TL_quick == <<" ", "Q", "u", "i", "c", "k", " ">>
TL_sp == <<" ", " ">>
TL_colon == <<":", "x">>
TL_brace == <<"{", "#", "i", "d", "}">>

MaxLineLen  == 4
MaxFmLines  == 3
MaxDocLines == 4

\* all sequences over S of length at most n
SeqsUpTo(S, n) == UNION {[1..k -> S] : k \in 0..n}

\* lines for convert_admonitions: every short line over a few characters, and
\* lines put together from a lead, a type word and a tail
AdmAlphabet == {":", " ", "e", "-"}
AdmLeads    == {<<>>, <<" ">>, <<":", ":">>, ADM_CLOSE, CALLOUT_CLOSE}
AdmWords    == {<<>>, T_note, T_tip, T_info, T_caution, T_warning, T_danger,
                W_Note, W_TIP, W_Foo, W_x, W_a_1}
AdmTails    == {<<>>, <<" ">>, TL_hello, TL_quick, TL_sp, TL_colon, TL_brace}
AdmLines    == SeqsUpTo(AdmAlphabet, MaxLineLen)
               \cup {l \o w \o t : l \in AdmLeads, w \in AdmWords, t \in AdmTails}
               \cup {L_plain}

\* frontmatter blocks for convert_frontmatter
FmLineSet == {L_title_test, L_sidebar_1, L_sidebar_colons, L_sidebar_nocolon,
              L_sidebar_indent, L_order_3, <<>>}
FmBlocks  == SeqsUpTo(FmLineSet, MaxFmLines)

\* documents for convert_content: the lines, each ended by "\n" (the last one
\* perhaps not)
DocLineSet == {FM_DELIM, L_sidebar_2, L_tip_quick, L_body, ADM_CLOSE, <<>>}
EndToEndDoc == <<FM_DELIM, L_title_x, L_sidebar_2, FM_DELIM, L_tip_quick, L_body, ADM_CLOSE>>
Docs == SeqsUpTo(DocLineSet, MaxDocLines) \cup {EndToEndDoc}

RECURSIVE join_lines(_, _)
join_lines(ls, terminated) ==
    IF ls = <<>> THEN <<>>
    ELSE IF Len(ls) = 1 /\ ~terminated THEN Head(ls)
    ELSE Head(ls) \o <<NL>> \o join_lines(Tail(ls), terminated)

Contents == {join_lines(d, t) : d \in Docs, t \in BOOLEAN}

----------------------------------------------------------------------------
(* One call of convert_admonitions, then a second pass over what it made.  *)

AdmIdle ==
    /\ adm_line = <<>> /\ adm_out = <<>> /\ adm_rule = "none"
    /\ adm_pass2 = <<>> /\ adm_pc = "idle"

AdmInit ==
    /\ adm_line \in AdmLines
    /\ adm_out = <<>> /\ adm_rule = "none" /\ adm_pass2 = <<>>
    /\ adm_pc = "call"

\* the `if let Some(caps)` branch
AdmOpening ==
    /\ adm_pc = "call"
    /\ admonition_start_is_match(adm_line)
    /\ adm_out' = convert_admonitions(adm_line)
    /\ adm_rule' = "opening"
    /\ adm_pc' = "returned"
    /\ UNCHANGED <<adm_line, adm_pass2>>
    /\ UNCHANGED <<fmVars, ccVars, mainVars, pfVars>>

\* the `else if admonition_end.is_match(line)` branch
AdmClosing ==
    /\ adm_pc = "call"
    /\ ~admonition_start_is_match(adm_line)
    /\ admonition_end_is_match(adm_line)
    /\ adm_out' = convert_admonitions(adm_line)
    /\ adm_rule' = "closing"
    /\ adm_pc' = "returned"
    /\ UNCHANGED <<adm_line, adm_pass2>>
    /\ UNCHANGED <<fmVars, ccVars, mainVars, pfVars>>

\* the final `else`
AdmUnchanged ==
    /\ adm_pc = "call"
    /\ ~admonition_start_is_match(adm_line)
    /\ ~admonition_end_is_match(adm_line)
    /\ adm_out' = convert_admonitions(adm_line)
    /\ adm_rule' = "unchanged"
    /\ adm_pc' = "returned"
    /\ UNCHANGED <<adm_line, adm_pass2>>
    /\ UNCHANGED <<fmVars, ccVars, mainVars, pfVars>>

\* the transformer applied again to each line of its own output
AdmSecondPass ==
    /\ adm_pc = "returned"
    /\ adm_pass2' = [i \in 1..Len(lines(adm_out)) |-> convert_admonitions(lines(adm_out)[i])]
    /\ adm_pc' = "again"
    /\ UNCHANGED <<adm_line, adm_out, adm_rule>>
    /\ UNCHANGED <<fmVars, ccVars, mainVars, pfVars>>

AdmNext == AdmOpening \/ AdmClosing \/ AdmUnchanged \/ AdmSecondPass

----------------------------------------------------------------------------
(* One call of convert_frontmatter.                                        *)

FmIdle == fm_lines = <<>> /\ fm_out = <<>> /\ fm_pc = "idle"

FmInit == fm_lines \in FmBlocks /\ fm_out = <<>> /\ fm_pc = "call"

FmConvert ==
    /\ fm_pc = "call"
    /\ fm_out' = convert_frontmatter(fm_lines)
    /\ fm_pc' = "returned"
    /\ UNCHANGED fm_lines
    /\ UNCHANGED <<admVars, ccVars, mainVars, pfVars>>

FmNext == FmConvert

----------------------------------------------------------------------------
(* convert_content, line by line.                                          *)

CcIdle ==
    /\ content = <<>> /\ cc_lines = <<>> /\ pos = 0
    /\ in_frontmatter = FALSE /\ frontmatter_lines = <<>> /\ result = <<>>
    /\ cc_pc = "idle"

CcInit ==
    /\ content \in Contents
    /\ cc_lines = <<>> /\ pos = 0
    /\ in_frontmatter = FALSE /\ frontmatter_lines = <<>> /\ result = <<>>
    /\ cc_pc = "entry"

\* the three `let mut` and the iterator content.lines()
CcEnter ==
    /\ cc_pc = "entry"
    /\ cc_lines' = lines(content)
    /\ pos' = 1
    /\ in_frontmatter' = scan_start.in_frontmatter
    /\ frontmatter_lines' = scan_start.frontmatter_lines
    /\ result' = scan_start.result
    /\ cc_pc' = "loop"
    /\ UNCHANGED content
    /\ UNCHANGED <<admVars, fmVars, mainVars, pfVars>>

CcLocals == [in_frontmatter |-> in_frontmatter,
             frontmatter_lines |-> frontmatter_lines,
             result |-> result]

\* the loop body on the line at pos
CcAdvance ==
    LET st == scan_line(CcLocals, cc_lines[pos]) IN
    /\ in_frontmatter' = st.in_frontmatter
    /\ frontmatter_lines' = st.frontmatter_lines
    /\ result' = st.result
    /\ pos' = pos + 1
    /\ UNCHANGED <<content, cc_lines, cc_pc>>
    /\ UNCHANGED <<admVars, fmVars, mainVars, pfVars>>

CcAtLine == cc_pc = "loop" /\ pos <= Len(cc_lines)

\* line == "---" and !in_frontmatter
CcOpenDelimiter ==
    /\ CcAtLine /\ cc_lines[pos] = FM_DELIM /\ ~in_frontmatter
    /\ CcAdvance

\* line == "---" and in_frontmatter
CcCloseDelimiter ==
    /\ CcAtLine /\ cc_lines[pos] = FM_DELIM /\ in_frontmatter
    /\ CcAdvance

\* any other line while in_frontmatter
CcCollect ==
    /\ CcAtLine /\ cc_lines[pos] # FM_DELIM /\ in_frontmatter
    /\ CcAdvance

\* any other line while not in_frontmatter
CcBodyLine ==
    /\ CcAtLine /\ cc_lines[pos] # FM_DELIM /\ ~in_frontmatter
    /\ CcAdvance

\* the iterator is exhausted: `result` is returned
CcReturn ==
    /\ cc_pc = "loop" /\ pos > Len(cc_lines)
    /\ cc_pc' = "returned"
    /\ UNCHANGED <<content, cc_lines, pos, in_frontmatter, frontmatter_lines, result>>
    /\ UNCHANGED <<admVars, fmVars, mainVars, pfVars>>

CcNext == CcEnter \/ CcOpenDelimiter \/ CcCloseDelimiter \/ CcCollect \/ CcBodyLine \/ CcReturn

----------------------------------------------------------------------------
(* process_files and the loop of main around it.                           *)

MaxFiles == 2

\* a source path: the directory below the source root, the file stem, and
\* whether the path lies under the source root at all
SourceDirs  == {"", "guide"}
SourceStems == {"a", "b"}
WalkedFiles == {[dir |-> d, stem |-> s, under_root |-> TRUE] :
                    d \in SourceDirs, s \in SourceStems}
ImgFiles    == {"p.png", "q.png"}

\* what a source file may hold, and convert_content of it
FileContents == {join_lines(EndToEndDoc, TRUE), join_lines(<<L_body, ADM_CLOSE>>, TRUE)}
Converted    == [c \in FileContents |-> convert_content(c)]

\* the orders in which WalkDir may hand out up to MaxFiles .md files
FileLists == {fl \in SeqsUpTo(WalkedFiles, MaxFiles) :
                  \A i, j \in 1..Len(fl) : i # j => fl[i] # fl[j]}

NoFile == [dir |-> "", stem |-> "", under_root |-> FALSE]

\* a directory below the destination root: the parent of a .qmd file, or its img folder
DestDir(dir) == <<dir, "">>
ImgDir(dir)  == <<dir, "img">>

PfIdle ==
    /\ pf_pc = "idle" /\ pf_file = NoFile /\ pf_content = <<>>
    /\ pf_converted = <<>> /\ pf_result = "none"
    /\ dest_dirs = {} /\ dest_files = {} /\ img_copied = {}

MainIdle ==
    /\ md_files = <<>> /\ next_file = 0 /\ main_pc = "idle"
    /\ calls = <<>> /\ success_count = 0 /\ pb_pos = 0

MainInit ==
    /\ md_files = <<>> /\ next_file = 0 /\ main_pc = "start"
    /\ calls = <<>> /\ success_count = 0 /\ pb_pos = 0
    /\ PfIdle

\* fs::read_to_string(source_file)?
PfRead ==
    /\ pf_pc = "read"
    /\ \/ /\ \E c \in FileContents : pf_content' = c
          /\ pf_pc' = "convert"
          /\ UNCHANGED pf_result
       \/ /\ pf_result' = "Err"
          /\ pf_pc' = "returned"
          /\ UNCHANGED pf_content
    /\ UNCHANGED <<pf_file, pf_converted, dest_dirs, dest_files, img_copied>>
    /\ UNCHANGED <<admVars, fmVars, ccVars, mainVars>>

\* convert_content(&content)
PfConvert ==
    /\ pf_pc = "convert"
    /\ pf_converted' = Converted[pf_content]
    /\ pf_pc' = "strip_prefix"
    /\ UNCHANGED <<pf_file, pf_content, pf_result, dest_dirs, dest_files, img_copied>>
    /\ UNCHANGED <<admVars, fmVars, ccVars, mainVars>>

\* a slip of the step below: the failed strip_prefix is not propagated
PfStripPrefixUnchecked ==
    /\ pf_pc = "strip_prefix"
    /\ pf_pc' = "create_dir"
    /\ UNCHANGED <<pf_file, pf_content, pf_converted, pf_result,
                   dest_dirs, dest_files, img_copied>>
    /\ UNCHANGED <<admVars, fmVars, ccVars, mainVars>>

\* source_file.strip_prefix(source_root)?
PfStripPrefix ==
    /\ pf_pc = "strip_prefix"
    /\ IF pf_file.under_root
       THEN pf_pc' = "create_dir" /\ UNCHANGED pf_result
       ELSE pf_pc' = "returned" /\ pf_result' = "Err"
    /\ UNCHANGED <<pf_file, pf_content, pf_converted, dest_dirs, dest_files, img_copied>>
    /\ UNCHANGED <<admVars, fmVars, ccVars, mainVars>>

\* fs::create_dir_all(parent)?
PfCreateDir ==
    /\ pf_pc = "create_dir"
    /\ \/ /\ dest_dirs' = dest_dirs \cup {DestDir(pf_file.dir)}
          /\ pf_pc' = "write"
          /\ UNCHANGED pf_result
       \/ /\ pf_result' = "Err"
          /\ pf_pc' = "returned"
          /\ UNCHANGED dest_dirs
    /\ UNCHANGED <<pf_file, pf_content, pf_converted, dest_files, img_copied>>
    /\ UNCHANGED <<admVars, fmVars, ccVars, mainVars>>

\* the .qmd files of dest_files other than the one at dir/stem
OtherFiles(dir, stem) == {f \in dest_files : ~(f.dir = dir /\ f.stem = stem)}

\* fs::write(&dest_path, converted)?
PfWrite ==
    /\ pf_pc = "write"
    /\ \/ /\ dest_files' = OtherFiles(pf_file.dir, pf_file.stem)
                           \cup {[dir |-> pf_file.dir, stem |-> pf_file.stem,
                                  text |-> pf_converted]}
          /\ pf_pc' = "copy_img"
          /\ UNCHANGED pf_result
       \/ /\ pf_result' = "Err"
          /\ pf_pc' = "returned"
          /\ UNCHANGED dest_files
    /\ UNCHANGED <<pf_file, pf_content, pf_converted, dest_dirs, img_copied>>
    /\ UNCHANGED <<admVars, fmVars, ccVars, mainVars>>

\* a variant of the step below: a failed copy takes the written .qmd file away
PfCopyImgRollingBack ==
    /\ pf_pc = "copy_img"
    /\ \/ /\ pf_result' = "Ok"
          /\ UNCHANGED <<dest_dirs, img_copied, dest_files>>
       \/ /\ pf_result' = "Err"
          /\ dest_files' = OtherFiles(pf_file.dir, pf_file.stem)
          /\ UNCHANGED <<dest_dirs, img_copied>>
       \/ /\ \E done \in (SUBSET ImgFiles) \ {ImgFiles} :
                img_copied' = img_copied \cup {<<pf_file.dir, i>> : i \in done}
          /\ dest_dirs' = dest_dirs \cup {ImgDir(pf_file.dir)}
          /\ dest_files' = OtherFiles(pf_file.dir, pf_file.stem)
          /\ pf_result' = "Err"
       \/ /\ img_copied' = img_copied \cup {<<pf_file.dir, i>> : i \in ImgFiles}
          /\ dest_dirs' = dest_dirs \cup {ImgDir(pf_file.dir)}
          /\ pf_result' = "Ok"
          /\ UNCHANGED dest_files
    /\ pf_pc' = "returned"
    /\ UNCHANGED <<pf_file, pf_content, pf_converted>>
    /\ UNCHANGED <<admVars, fmVars, ccVars, mainVars>>

\* copy_img_folder(source_file, &dest_path)? and Ok(())
PfCopyImg ==
    /\ pf_pc = "copy_img"
    /\ \/ \* no img folder beside the source file
          /\ pf_result' = "Ok"
          /\ UNCHANGED <<dest_dirs, img_copied>>
       \/ \* fs::create_dir_all(&dest_img) fails
          /\ pf_result' = "Err"
          /\ UNCHANGED <<dest_dirs, img_copied>>
       \/ \* read_dir, an entry or a copy fails after some files were copied
          /\ \E done \in (SUBSET ImgFiles) \ {ImgFiles} :
                img_copied' = img_copied \cup {<<pf_file.dir, i>> : i \in done}
          /\ dest_dirs' = dest_dirs \cup {ImgDir(pf_file.dir)}
          /\ pf_result' = "Err"
       \/ \* every file of the folder is copied
          /\ img_copied' = img_copied \cup {<<pf_file.dir, i>> : i \in ImgFiles}
          /\ dest_dirs' = dest_dirs \cup {ImgDir(pf_file.dir)}
          /\ pf_result' = "Ok"
    /\ pf_pc' = "returned"
    /\ UNCHANGED <<pf_file, pf_content, pf_converted, dest_files>>
    /\ UNCHANGED <<admVars, fmVars, ccVars, mainVars>>

\* !args.source.exists(): exit(1)
MainSourceMissing ==
    /\ main_pc = "start"
    /\ main_pc' = "exit1"
    /\ UNCHANGED <<md_files, next_file, calls, success_count, pb_pos, pfVars>>
    /\ UNCHANGED <<admVars, fmVars, ccVars>>

\* the source exists
MainSourceExists ==
    /\ main_pc = "start"
    /\ main_pc' = "create_dest"
    /\ UNCHANGED <<md_files, next_file, calls, success_count, pb_pos, pfVars>>
    /\ UNCHANGED <<admVars, fmVars, ccVars>>

\* fs::create_dir_all(&args.dest) fails: exit(1)
MainDestFails ==
    /\ main_pc = "create_dest"
    /\ main_pc' = "exit1"
    /\ UNCHANGED <<md_files, next_file, calls, success_count, pb_pos, pfVars>>
    /\ UNCHANGED <<admVars, fmVars, ccVars>>

\* fs::create_dir_all(&args.dest) succeeds
MainDestCreated ==
    /\ main_pc = "create_dest"
    /\ dest_dirs' = dest_dirs \cup {DestDir("")}
    /\ main_pc' = "collect"
    /\ UNCHANGED <<md_files, next_file, calls, success_count, pb_pos,
                   pf_pc, pf_file, pf_content, pf_converted, pf_result,
                   dest_files, img_copied>>
    /\ UNCHANGED <<admVars, fmVars, ccVars>>

\* WalkDir finds no .md file: exit(1)
MainNoFiles ==
    /\ main_pc = "collect"
    /\ main_pc' = "exit1"
    /\ UNCHANGED <<md_files, next_file, calls, success_count, pb_pos, pfVars>>
    /\ UNCHANGED <<admVars, fmVars, ccVars>>

\* md_files is collected, in the order WalkDir yields
MainCollect ==
    /\ main_pc = "collect"
    /\ \E fl \in FileLists \ {<<>>} : md_files' = fl
    /\ next_file' = 1
    /\ main_pc' = "loop"
    /\ UNCHANGED <<calls, success_count, pb_pos, pfVars>>
    /\ UNCHANGED <<admVars, fmVars, ccVars>>

\* the next md_file: process_files(&md_file, &args.source, &args.dest)
MainCall ==
    /\ main_pc = "loop"
    /\ next_file <= Len(md_files)
    /\ calls' = Append(calls, md_files[next_file])
    /\ pf_file' = md_files[next_file]
    /\ pf_pc' = "read"
    /\ pf_content' = <<>> /\ pf_converted' = <<>> /\ pf_result' = "none"
    /\ main_pc' = "match"
    /\ UNCHANGED <<md_files, next_file, success_count, pb_pos,
                   dest_dirs, dest_files, img_copied>>
    /\ UNCHANGED <<admVars, fmVars, ccVars>>

\* after an Err arm the loop stops (not what main does)
MainErrBreaks ==
    /\ main_pc = "match" /\ pf_pc = "returned" /\ pf_result = "Err"
    /\ pb_pos' = pb_pos + 1
    /\ main_pc' = "finished"
    /\ pf_pc' = "idle"
    /\ UNCHANGED <<md_files, next_file, calls, success_count,
                   pf_file, pf_content, pf_converted, pf_result,
                   dest_dirs, dest_files, img_copied>>
    /\ UNCHANGED <<admVars, fmVars, ccVars>>

\* Ok(_): success_count += 1; then pb.inc(1) and the next iteration
MainOk ==
    /\ main_pc = "match" /\ pf_pc = "returned" /\ pf_result = "Ok"
    /\ success_count' = success_count + 1
    /\ pb_pos' = pb_pos + 1
    /\ next_file' = next_file + 1
    /\ main_pc' = "loop"
    /\ pf_pc' = "idle"
    /\ UNCHANGED <<md_files, calls, pf_file, pf_content, pf_converted, pf_result,
                   dest_dirs, dest_files, img_copied>>
    /\ UNCHANGED <<admVars, fmVars, ccVars>>

\* Err(e): pb.inc(1); then pb.inc(1) and the next iteration
MainErr ==
    /\ main_pc = "match" /\ pf_pc = "returned" /\ pf_result = "Err"
    /\ pb_pos' = pb_pos + 2
    /\ next_file' = next_file + 1
    /\ main_pc' = "loop"
    /\ pf_pc' = "idle"
    /\ UNCHANGED <<md_files, calls, success_count,
                   pf_file, pf_content, pf_converted, pf_result,
                   dest_dirs, dest_files, img_copied>>
    /\ UNCHANGED <<admVars, fmVars, ccVars>>

\* md_files is exhausted: pb.finish_with_message
MainFinish ==
    /\ main_pc = "loop"
    /\ next_file > Len(md_files)
    /\ main_pc' = "finished"
    /\ UNCHANGED <<md_files, next_file, calls, success_count, pb_pos, pfVars>>
    /\ UNCHANGED <<admVars, fmVars, ccVars>>

MainNext ==
    \/ MainSourceMissing \/ MainSourceExists \/ MainDestFails \/ MainDestCreated
    \/ MainNoFiles \/ MainCollect
    \/ MainCall \/ MainOk \/ MainErr \/ MainFinish
    \/ PfRead \/ PfConvert \/ PfStripPrefix \/ PfCreateDir \/ PfWrite \/ PfCopyImg

----------------------------------------------------------------------------
(* The specifications.                                                     *)

\* one call of convert_admonitions
InitAdm == AdmInit /\ FmIdle /\ CcIdle /\ MainIdle /\ PfIdle
NextAdm == AdmNext
SpecAdm == InitAdm /\ [][NextAdm]_vars

\* one call of convert_frontmatter
InitFm == FmInit /\ AdmIdle /\ CcIdle /\ MainIdle /\ PfIdle
NextFm == FmNext
SpecFm == InitFm /\ [][NextFm]_vars

\* one call of convert_content
Init == CcInit /\ AdmIdle /\ FmIdle /\ MainIdle /\ PfIdle
Next == CcNext
Spec == Init /\ [][Next]_vars

\* one call of process_files from outside main: the source file may lie
\* outside the source root, the destination tree is empty
OutsideFiles == {[dir |-> d, stem |-> s, under_root |-> FALSE] :
                     d \in SourceDirs, s \in SourceStems}
PfCallInit ==
    /\ pf_pc = "read"
    /\ pf_file \in WalkedFiles \cup OutsideFiles
    /\ pf_content = <<>> /\ pf_converted = <<>> /\ pf_result = "none"
    /\ dest_dirs = {} /\ dest_files = {} /\ img_copied = {}
InitPf == PfCallInit /\ MainIdle /\ AdmIdle /\ FmIdle /\ CcIdle
NextPf == PfRead \/ PfConvert \/ PfStripPrefix \/ PfCreateDir \/ PfWrite \/ PfCopyImg
SpecPf == InitPf /\ [][NextPf]_vars

\* one run of main; a started run goes on until it exits
InitMain == MainInit /\ AdmIdle /\ FmIdle /\ CcIdle
NextMain == MainNext
SpecMain == InitMain /\ [][NextMain]_vars /\ WF_vars(NextMain)

----------------------------------------------------------------------------
(* Properties of the line scan of convert_content.                         *)

\* how many of the lines are the delimiter line
RECURSIVE DelimCount(_)
DelimCount(ls) ==
    IF ls = <<>> THEN 0
    ELSE (IF Head(ls) = FM_DELIM THEN 1 ELSE 0) + DelimCount(Tail(ls))

\* body lines as the pipeline is to emit them: each through the admonition
\* transformer and ended by one newline
RECURSIVE BodyText(_)
BodyText(ls) ==
    IF ls = <<>> THEN <<>>
    ELSE convert_admonitions(Head(ls)) \o <<NL>> \o BodyText(Tail(ls))

\* the text cut after each newline, the newlines left out
RECURSIVE OutputLines(_)
OutputLines(text) ==
    IF text = <<>> THEN <<>>
    ELSE LET n == find_from(text, NL, 1) IN
         IF n = 0 THEN <<text>>
         ELSE <<SubSeq(text, 1, n - 1)>> \o OutputLines(SubSeq(text, n + 1, Len(text)))

\* C1: a "---" line read in the frontmatter state emits "---" and the converted
\* buffer, clears the buffer and puts the pipeline back in the body state; so a
\* later line that is not "---" and follows a closing delimiter is emitted as
\* convert_admonitions(line) and a newline.
C1_CloseReturnsToBody ==
    [][ (CcAtLine /\ pos' = pos + 1) =>
          /\ (cc_lines[pos] = FM_DELIM /\ in_frontmatter) =>
                /\ result' = result \o FM_DELIM_LINE \o convert_frontmatter(frontmatter_lines)
                /\ frontmatter_lines' = <<>>
                /\ in_frontmatter' = FALSE
          /\ (/\ cc_lines[pos] # FM_DELIM
              /\ DelimCount(SubSeq(cc_lines, 1, pos - 1)) >= 2
              /\ DelimCount(SubSeq(cc_lines, 1, pos - 1)) % 2 = 0) =>
                result' = result \o convert_admonitions(cc_lines[pos]) \o <<NL>>
      ]_vars

\* C3: the end-to-end document converts to "---", the title line and "order: 2",
\* no second "---", then the callout for the tip, its heading, the body line and
\* the closing "::::", the text ending with a newline.
C3_EndToEnd ==
    (cc_pc = "returned" /\ content = join_lines(EndToEndDoc, TRUE)) =>
        LET out == OutputLines(result)
            n   == Len(out)
        IN  /\ n >= 7
            /\ result[Len(result)] = NL
            /\ out[1] = FM_DELIM
            /\ \E i \in 2..n : out[i] = L_title_x
            /\ \E i \in 2..n : out[i] = L_order_2
            /\ \A i \in 2..n : out[i] # FM_DELIM
            /\ SubSeq(out, n - 3, n) = <<L_callout_tip, L_h_quick, L_body, CALLOUT_CLOSE>>

\* C6: a document with exactly one "---" line converts to the transformed lines
\* that precede the delimiter and nothing else: what follows the delimiter is
\* not emitted, and no "---" line is emitted.
C6_UnterminatedFrontmatterDropped ==
    (cc_pc = "returned" /\ DelimCount(cc_lines) = 1) =>
        LET d == CHOOSE i \in 1..Len(cc_lines) : cc_lines[i] = FM_DELIM IN
        /\ result = BodyText(SubSeq(cc_lines, 1, d - 1))
        /\ \A i \in 1..Len(OutputLines(result)) : OutputLines(result)[i] # FM_DELIM

\* a single delimiter with body lines before it and buffered lines after it
C6_Witness ==
    /\ cc_pc = "returned"
    /\ DelimCount(cc_lines) = 1
    /\ Len(cc_lines) >= 4
    /\ cc_lines[2] = FM_DELIM
    /\ frontmatter_lines # <<>>
    /\ result # <<>>

\* C7: a document without a "---" line never enters the frontmatter state, and
\* its output is convert_admonitions(line) and a newline for each line, in order.
C7_NoDelimiterAllBody ==
    DelimCount(lines(content)) = 0 =>
        /\ ~in_frontmatter
        /\ frontmatter_lines = <<>>
        /\ cc_pc = "loop" => result = BodyText(SubSeq(cc_lines, 1, pos - 1))
        /\ cc_pc = "returned" => result = BodyText(lines(content))

\* a document of body lines only, a blank one and an admonition among them
C7_Witness ==
    /\ cc_pc = "returned"
    /\ DelimCount(cc_lines) = 0
    /\ Len(cc_lines) >= 3
    /\ \E i \in 1..Len(cc_lines) : cc_lines[i] = <<>>
    /\ \E i \in 1..Len(cc_lines) : cc_lines[i] = L_tip_quick
    /\ result = BodyText(cc_lines)

\* the index of the first "---" line of ls, 0 when there is none
FirstDelim(ls) ==
    IF \E i \in 1..Len(ls) : ls[i] = FM_DELIM
    THEN CHOOSE i \in 1..Len(ls) :
             ls[i] = FM_DELIM /\ \A j \in 1..(i - 1) : ls[j] # FM_DELIM
    ELSE 0

\* what the delimiters of ls flush: for each one "---" and convert_frontmatter
\* of the lines since the delimiter before it; the lines after the last
\* delimiter give nothing
RECURSIVE FlushText(_)
FlushText(ls) ==
    IF FirstDelim(ls) = 0 THEN <<>>
    ELSE FM_DELIM_LINE
         \o convert_frontmatter(SubSeq(ls, 1, FirstDelim(ls) - 1))
         \o FlushText(SubSeq(ls, FirstDelim(ls) + 1, Len(ls)))

----------------------------------------------------------------------------
(* Properties of convert_frontmatter.                                      *)

\* the whole of the line after its first colon
AfterFirstColon(line) ==
    LET i == find_from(line, COLON, 1) IN
    IF i = 0 THEN <<>> ELSE SubSeq(line, i + 1, Len(line))

\* C4: a sidebar_position line becomes "order: <value>", the value being all
\* that follows the first colon of the line, trimmed (later colons kept), and
\* empty when the line has no colon.
C4_OrderValueAfterFirstColon ==
    fm_pc = "returned" =>
        /\ Len(OutputLines(fm_out)) = Len(fm_lines)
        /\ \A i \in 1..Len(fm_lines) :
              is_sidebar_position(fm_lines[i]) =>
                  OutputLines(fm_out)[i] = ORDER_PREFIX \o trim(AfterFirstColon(fm_lines[i]))

NewlineCount(text) == Cardinality({i \in 1..Len(text) : text[i] = NL})

\* C5: convert_frontmatter emits one newline-terminated line per input line, in
\* input order; a line that is not a sidebar_position line is emitted unchanged,
\* a sidebar_position line as an "order: " line, and an "order" line already
\* there stays.
C5_OneLinePerInputLine ==
    fm_pc = "returned" =>
        /\ NewlineCount(fm_out) = Len(fm_lines)
        /\ fm_lines # <<>> => fm_out[Len(fm_out)] = NL
        /\ Len(OutputLines(fm_out)) = Len(fm_lines)
        /\ \A i \in 1..Len(fm_lines) :
              IF is_sidebar_position(fm_lines[i])
              THEN starts_with(OutputLines(fm_out)[i], ORDER_PREFIX)
              ELSE OutputLines(fm_out)[i] = fm_lines[i]
        /\ fm_lines = <<L_title_test, L_sidebar_1>> =>
              fm_out = L_title_test \o <<NL>> \o L_order_1 \o <<NL>>

\* a block with an "order" line before a sidebar_position line: both come out
C5_Witness ==
    /\ fm_pc = "returned"
    /\ fm_lines = <<L_title_test, L_order_3, L_sidebar_1>>
    /\ OutputLines(fm_out) = <<L_title_test, L_order_3, L_order_1>>

----------------------------------------------------------------------------
(* Properties of convert_admonitions.                                      *)

\* the run of word characters after the three colons
TypeToken(line) == SubSeq(line, 4, word_run_end(line, 4))

\* the type-mapping table
TargetType(token) ==
    LET l == to_lowercase(token) IN
    CASE l = T_note    -> T_note
      [] l = T_tip     -> T_tip
      [] l = T_info    -> T_note
      [] l = T_caution -> T_caution
      [] l = T_warning -> T_warning
      [] l = T_danger  -> T_important
      [] OTHER         -> token

\* C2: an opening marker's type is the whole run of word characters, looked up
\* case-insensitively in the table; ":::note Hello" gives ":::: {.callout-note}"
\* and "## Hello", ":::info" gives ":::: {note}".
C2_TypeIsWholeRun ==
    (adm_pc = "returned" /\ admonition_start_is_match(adm_line)) =>
        LET title == trim(SubSeq(adm_line, word_run_end(adm_line, 4) + 1, Len(adm_line)))
            type  == TargetType(TypeToken(adm_line))
        IN  /\ adm_out = IF title = <<>>
                         THEN FMT_OPEN \o type \o FMT_CLOSE
                         ELSE FMT_OPEN_CALLOUT \o type \o FMT_HEADING \o title
            /\ adm_line = L_note_hello => adm_out = L_callout_note \o <<NL>> \o L_h_hello
            /\ adm_line = L_info => adm_out = L_brace_note

\* C8: the closing rule rewrites a line to "::::" exactly when the line is ":::";
\* a line that matches neither rule comes back unchanged; no line matches both
\* rules.
C8_ClosingOnlyExactColons ==
    adm_pc = "returned" =>
        /\ adm_rule = "closing" <=> adm_line = ADM_CLOSE
        /\ adm_rule = "closing" => adm_out = CALLOUT_CLOSE
        /\ adm_rule = "unchanged" <=>
              (~admonition_start_is_match(adm_line) /\ adm_line # ADM_CLOSE)
        /\ adm_rule = "unchanged" => adm_out = adm_line
        /\ ~(admonition_start_is_match(adm_line) /\ admonition_end_is_match(adm_line))

\* ":::" followed by a blank is no closing marker
C8_Witness ==
    /\ adm_pc = "returned"
    /\ adm_line = ADM_CLOSE \o <<" ">>
    /\ adm_rule = "unchanged"
    /\ adm_out = adm_line

\* C9: a second pass changes nothing: each line of convert_admonitions(L) is
\* returned unchanged by convert_admonitions, and a line that starts with four
\* colons matches neither rule.
C9_SecondPassChangesNothing ==
    /\ adm_pc = "again" =>
          /\ adm_pass2 = OutputLines(adm_out)
          /\ \A i \in 1..Len(OutputLines(adm_out)) :
                starts_with(OutputLines(adm_out)[i], CALLOUT_CLOSE) =>
                    /\ ~admonition_start_is_match(OutputLines(adm_out)[i])
                    /\ ~admonition_end_is_match(OutputLines(adm_out)[i])
    /\ (adm_pc = "returned" /\ starts_with(adm_line, CALLOUT_CLOSE)) =>
          adm_rule = "unchanged"

\* a titled opening marker: two output lines, both left alone by the second pass
C9_Witness ==
    /\ adm_pc = "again"
    /\ adm_rule = "opening"
    /\ Len(adm_pass2) = 2
    /\ starts_with(adm_pass2[1], CALLOUT_CLOSE)

\* the text after the run of word characters, trimmed
TitleOf(line) == trim(SubSeq(line, word_run_end(line, 4) + 1, Len(line)))

\* a type as it stands between the braces: word characters, at least one
IsTypeText(t) == t # <<>> /\ \A i \in 1..Len(t) : IsWordChar(t[i])

HEADING_PREFIX == <<"#", "#", " ">>

\* C11: for an opening marker the title is the text after the type word,
\* trimmed, and it alone decides the shape: an empty title (blanks only too)
\* gives the one line ":::: {<type>}", no dot and no "callout-"; any other title
\* gives the two lines ":::: {.callout-<type>}" and "## <title>".
C11_ShapeFollowsTitle ==
    (adm_pc = "returned" /\ admonition_start_is_match(adm_line)) =>
        LET out == OutputLines(adm_out) IN
        IF TitleOf(adm_line) = <<>>
        THEN /\ Len(out) = 1
             /\ starts_with(adm_out, FMT_OPEN)
             /\ adm_out[Len(adm_out)] = "}"
             /\ IsTypeText(SubSeq(adm_out, Len(FMT_OPEN) + 1, Len(adm_out) - 1))
        ELSE /\ Len(out) = 2
             /\ starts_with(out[1], FMT_OPEN_CALLOUT)
             /\ out[1][Len(out[1])] = "}"
             /\ IsTypeText(SubSeq(out[1], Len(FMT_OPEN_CALLOUT) + 1, Len(out[1]) - 1))
             /\ out[2] = HEADING_PREFIX \o TitleOf(adm_line)

\* an opening marker followed by blanks only: the untitled shape
C11_Witness ==
    /\ adm_pc = "returned"
    /\ adm_line = ADM_CLOSE \o T_note \o TL_sp
    /\ adm_rule = "opening"
    /\ Len(OutputLines(adm_out)) = 1
    /\ starts_with(adm_out, FMT_OPEN)
    /\ ~starts_with(adm_out, FMT_OPEN_CALLOUT)

----------------------------------------------------------------------------
(* Properties of the loop of main.                                         *)

\* C10: process_files is called once for every discovered file, in discovery
\* order, whatever the earlier calls returned, and the loop reaches its end.
C10_EveryFileProcessed ==
    /\ [](Len(calls) <= Len(md_files) /\ calls = SubSeq(md_files, 1, Len(calls)))
    /\ [](main_pc = "finished" => calls = md_files)
    /\ (main_pc = "loop" ~> main_pc = "finished")

\* two files, both calls returned Err, and the loop still ended
C10_Witness ==
    /\ main_pc = "finished"
    /\ Len(md_files) = 2
    /\ calls = md_files
    /\ success_count = 0
    /\ pb_pos = 4

----------------------------------------------------------------------------
(* Properties of process_files.                                            *)

\* the steps of process_files in the order of the code, and the step that may
\* follow each
PfOrder == <<"read", "convert", "strip_prefix", "create_dir", "write", "copy_img",
             "returned">>
PfIndex(pc) == CHOOSE i \in 1..Len(PfOrder) : PfOrder[i] = pc

\* the .qmd file of the source file f, whatever its text
WrittenFor(f) == {w \in dest_files : w.dir = f.dir /\ w.stem = f.stem}

\* C13: process_files reads, converts, strips the prefix, creates the
\* directories, writes the .qmd file and copies the img folder in this order,
\* and the first failing step skips the later ones; when the source file is
\* not under the source root, or cannot be read, it returns Err and has
\* created no directory and written no file.
C13_StepsInOrderFirstFailureReturns ==
    /\ [][ pf_pc' # pf_pc =>
              /\ \/ PfIndex(pf_pc') = PfIndex(pf_pc) + 1
                 \/ pf_pc' = "returned" /\ pf_result' = "Err"
              /\ (pf_pc' = "returned" /\ pf_pc # "copy_img") =>
                    /\ pf_result' = "Err"
                    /\ UNCHANGED <<dest_dirs, dest_files, img_copied>>
              /\ pf_result' = "Err" => pf_pc' = "returned"
              /\ dest_dirs' # dest_dirs => pf_pc \in {"create_dir", "copy_img"}
              /\ dest_files' # dest_files => pf_pc = "write"
              /\ img_copied' # img_copied => pf_pc = "copy_img"
              /\ (pf_pc = "strip_prefix" /\ ~pf_file.under_root) =>
                    pf_pc' = "returned" /\ pf_result' = "Err"
        ]_vars
    /\ []((pf_pc = "returned" /\ (~pf_file.under_root \/ pf_content = <<>>)) =>
              /\ pf_result = "Err"
              /\ dest_dirs = {} /\ dest_files = {} /\ img_copied = {})

\* a readable file outside the source root: converted, then Err, nothing made
C13_Witness ==
    /\ pf_pc = "returned"
    /\ ~pf_file.under_root
    /\ pf_content # <<>>
    /\ pf_converted = Converted[pf_content]
    /\ pf_result = "Err"
    /\ dest_dirs = {} /\ dest_files = {}

\* the .qmd file process_files writes for its source file
OutputFile == [dir |-> pf_file.dir, stem |-> pf_file.stem, text |-> pf_converted]

\* C14: the .qmd file is written before the img folder is copied: when
\* copy_img_folder fails, process_files returns Err and the written .qmd file
\* is still there.
C14_ErrAfterWriteKeepsOutput ==
    /\ [](pf_pc = "copy_img" => OutputFile \in dest_files)
    /\ [][ (pf_pc = "copy_img" /\ pf_result' = "Err") =>
              /\ pf_pc' = "returned"
              /\ dest_files' = dest_files
              /\ OutputFile \in dest_files'
        ]_vars
    /\ []((pf_pc = "returned" /\ WrittenFor(pf_file) # {}) =>
              WrittenFor(pf_file) = {OutputFile})

\* Err from a copy that failed half way: the .qmd file and one image are there
C14_Witness ==
    /\ pf_pc = "returned"
    /\ pf_result = "Err"
    /\ OutputFile \in dest_files
    /\ Cardinality(img_copied) = 1

====
